---- MODULE Spec2Model ----
(***************************************************************************)
(* Linear combinations of circuit variables                                *)
(* (src/src/circuit_proof/linear_combination.rs).                          *)
(*                                                                         *)
(* A LinearCombination<V> is the record [V, terms, precomputed]: V is the  *)
(* type parameter (the scalar kind of the variables and weights), terms    *)
(* the Vec<(V, V::ValueType)> and precomputed the Assignment returned by   *)
(* eval().  The scalar field is modelled by the ring of residues modulo    *)
(* Modulus.  The traits ScalarValue, Assignment and Variable are declared  *)
(* outside this file; their arithmetic is modelled from the specification. *)
(***************************************************************************)
EXTENDS Integers, Sequences, FiniteSets, TLC

VARIABLES lcs, reads, wires, last

vars == <<lcs, reads, wires, last>>

\* Size of the ring standing in for the scalar field.
Modulus == 3
\* Number of circuit wires besides the constant-one wire (index 0).
NumWires == 1
\* Largest number of terms alive at once, over all combinations.
MaxTerms == 2

Kinds == {"clear", "opaque"}
Residues == 0 .. (Modulus - 1)
Indices == 0 .. NumWires

-----------------------------------------------------------------------------
(* ScalarValue: the clear kind (Scalar) and the opaque kind (OpaqueScalar). *)

MkScalar(k, n) == [kind |-> k, n |-> n % Modulus]
Scalar(n) == MkScalar("clear", n)
OpaqueScalar(n) == MkScalar("opaque", n)
zero(k) == MkScalar(k, 0)
one(k) == MkScalar(k, 1)
SAdd(a, b) == MkScalar(a.kind, a.n + b.n)
SSub(a, b) == MkScalar(a.kind, a.n + (Modulus - b.n))
SNeg(a) == MkScalar(a.kind, Modulus - a.n)
SMul(a, b) == MkScalar(a.kind, a.n * b.n)
SIntoOpaque(a) == OpaqueScalar(a.n)
\* Scalar::into() : the conversion of a clear Scalar into V::ValueType.
into(k, s) == IF k = "clear" THEN s ELSE SIntoOpaque(s)

ScalarsOf(k) == {MkScalar(k, n) : n \in Residues}

-----------------------------------------------------------------------------
(* Assignment: a known value or the fact that it is not known.             *)

Value(s) == [tag |-> "Value", s |-> s]
Unknown == [tag |-> "Unknown"]
IsValue(a) == a.tag = "Value"

AAdd(l, r) == IF IsValue(l) /\ IsValue(r) THEN Value(SAdd(l.s, r.s)) ELSE Unknown
ASub(l, r) == IF IsValue(l) /\ IsValue(r) THEN Value(SSub(l.s, r.s)) ELSE Unknown
AMul(l, r) == IF IsValue(l) /\ IsValue(r) THEN Value(SMul(l.s, r.s)) ELSE Unknown
AIntoOpaque(a) == IF IsValue(a) THEN Value(SIntoOpaque(a.s)) ELSE Unknown
\* Assignment<S>: From<Scalar>
AFrom(k, s) == Value(into(k, s))

WireAssignments == {Unknown} \cup {Value(s) : s \in ScalarsOf("clear")}

-----------------------------------------------------------------------------
(* Variable: a wire of one scalar kind.                                     *)

Var(k, i) == [kind |-> k, index |-> i]
constant_one(k) == Var(k, 0)
VIntoOpaque(v) == Var("opaque", v.index)
assignment(v) ==
    IF v.index = 0 THEN Value(one(v.kind))
    ELSE IF IsValue(wires[v.index]) THEN Value(into(v.kind, wires[v.index].s))
    ELSE Unknown

VarsOf(k) == {Var(k, i) : i \in Indices}

-----------------------------------------------------------------------------
(* Operands: the input shapes for which an IntoLC implementation exists.   *)

Shapes ==
    {[shape |-> "Scalar", s |-> s] : s \in ScalarsOf("clear")}
    \cup {[shape |-> "OpaqueScalar", s |-> s] : s \in ScalarsOf("opaque")}
    \cup {[shape |-> "V", v |-> v] : v \in VarsOf("clear") \cup VarsOf("opaque")}
    \cup {[shape |-> "VScalar", v |-> v, w |-> w] :
            v \in VarsOf("clear") \cup VarsOf("opaque"), w \in ScalarsOf("clear")}
    \cup {[shape |-> "VOpaqueScalar", v |-> v, w |-> w] :
            v \in VarsOf("clear") \cup VarsOf("opaque"), w \in ScalarsOf("opaque")}

LCShape(lc) == [shape |-> "LC", lc |-> lc]

\* where Assignment<V::ValueType>: From<Scalar>
AssignmentFromScalar(V) == V \in Kinds

\* HasImpl with the opaque-constant rule left open to every V.
HasImpl_opaque_anywhere(V, X) ==
    CASE X.shape = "LC" -> X.lc.V = V
      [] X.shape = "Scalar" -> TRUE
      [] X.shape = "OpaqueScalar" -> TRUE
      [] X.shape = "V" -> X.v.kind = V
      [] X.shape = "VScalar" -> X.v.kind = V /\ AssignmentFromScalar(V)
      [] X.shape = "VOpaqueScalar" -> X.v.kind = V /\ V = "opaque"
      [] OTHER -> FALSE

\* Whether `impl IntoLC<V> for <the type of X>` exists.
HasImpl(V, X) ==
    CASE X.shape = "LC" -> X.lc.V = V
      [] X.shape = "Scalar" -> TRUE
      [] X.shape = "OpaqueScalar" -> V = "opaque"
      [] X.shape = "V" -> X.v.kind = V
      [] X.shape = "VScalar" -> X.v.kind = V /\ AssignmentFromScalar(V)
      [] X.shape = "VOpaqueScalar" -> X.v.kind = V /\ V = "opaque"
      [] OTHER -> FALSE

-----------------------------------------------------------------------------
(* LinearCombination<V>                                                    *)

LC(V, terms, precomputed) == [V |-> V, terms |-> terms, precomputed |-> precomputed]

\* into_lc whose pair rule leaves the weight out of precomputed.
into_lc_unweighted(V, X) ==
    CASE X.shape = "LC" -> X.lc
      [] X.shape = "Scalar" ->
            LC(V, << <<constant_one(V), into(V, X.s)>> >>, Value(into(V, X.s)))
      [] X.shape = "OpaqueScalar" ->
            LC(V, << <<constant_one(V), X.s>> >>, Value(X.s))
      [] X.shape = "V" ->
            LC(V, << <<X.v, one(V)>> >>, assignment(X.v))
      [] X.shape = "VScalar" ->
            LC(V, << <<X.v, into(V, X.w)>> >>, assignment(X.v))
      [] X.shape = "VOpaqueScalar" ->
            LC(V, << <<X.v, X.w>> >>, assignment(X.v))

into_lc(V, X) ==
    CASE X.shape = "LC" -> X.lc
      [] X.shape = "Scalar" ->
            LC(V, << <<constant_one(V), into(V, X.s)>> >>, Value(into(V, X.s)))
      [] X.shape = "OpaqueScalar" ->
            LC(V, << <<constant_one(V), X.s>> >>, Value(X.s))
      [] X.shape = "V" ->
            LC(V, << <<X.v, one(V)>> >>, assignment(X.v))
      [] X.shape = "VScalar" ->
            LC(V, << <<X.v, into(V, X.w)>> >>, AMul(assignment(X.v), AFrom(V, X.w)))
      [] X.shape = "VOpaqueScalar" ->
            LC(V, << <<X.v, X.w>> >>, AMul(assignment(X.v), Value(X.w)))

eval(self) == self.precomputed

\* into_opaque that does not carry the cached value over.
into_opaque_forgets(self) ==
    LC("opaque",
       [i \in 1 .. Len(self.terms) |->
            <<VIntoOpaque(self.terms[i][1]), SIntoOpaque(self.terms[i][2])>>],
       Unknown)

into_opaque(self) ==
    LC("opaque",
       [i \in 1 .. Len(self.terms) |->
            <<VIntoOpaque(self.terms[i][1]), SIntoOpaque(self.terms[i][2])>>],
       AIntoOpaque(self.precomputed))

\* default() caching one instead of zero.
default_one(V) == LC(V, <<>>, Value(one(V)))

default(V) == LC(V, <<>>, Value(zero(V)))

\* add with `=` in place of `+=`.
add_overwrites(self, X) ==
    LET other == into_lc(self.V, X)
    IN  LC(self.V, self.terms \o other.terms, other.precomputed)

\* add that folds a single new term into an existing term of the same variable.
add_merges(self, X) ==
    LET other == into_lc(self.V, X)
        hit == {i \in 1 .. Len(self.terms) :
                  Len(other.terms) = 1 /\ self.terms[i][1] = other.terms[1][1]}
    IN  LC(self.V,
           IF hit = {} THEN self.terms \o other.terms
           ELSE LET k == CHOOSE i \in hit : \A j \in hit : i <= j
                IN  [self.terms EXCEPT ![k][2] = SAdd(@, other.terms[1][2])],
           AAdd(self.precomputed, other.precomputed))

add(self, X) ==
    LET other == into_lc(self.V, X)
    IN  LC(self.V, self.terms \o other.terms, AAdd(self.precomputed, other.precomputed))

\* sub that appends the operand's terms with their weights as they are.
sub_keeps_sign(self, X) ==
    LET other == into_lc(self.V, X)
    IN  LC(self.V, self.terms \o other.terms, ASub(self.precomputed, other.precomputed))

sub(self, X) ==
    LET other == into_lc(self.V, X)
    IN  LC(self.V,
           self.terms \o [i \in 1 .. Len(other.terms) |->
                            <<other.terms[i][1], SNeg(other.terms[i][2])>>],
           ASub(self.precomputed, other.precomputed))

\* mul that scales the weights and leaves precomputed as it was.
mul_keeps_precomputed(self, scalar) ==
    LC(self.V,
       [i \in 1 .. Len(self.terms) |-> <<self.terms[i][1], SMul(self.terms[i][2], scalar)>>],
       self.precomputed)

\* mul whose loop scales copies of the weights: the stored terms stay.
mul_on_copies(self, scalar) ==
    LC(self.V, self.terms, AMul(self.precomputed, Value(scalar)))

\* mul that adds the scalar to precomputed.
mul_adds(self, scalar) ==
    LC(self.V,
       [i \in 1 .. Len(self.terms) |-> <<self.terms[i][1], SMul(self.terms[i][2], scalar)>>],
       AAdd(self.precomputed, Value(scalar)))

mul(self, scalar) ==
    LC(self.V,
       [i \in 1 .. Len(self.terms) |-> <<self.terms[i][1], SMul(self.terms[i][2], scalar)>>],
       AMul(self.precomputed, Value(scalar)))

-----------------------------------------------------------------------------
(* The program: two owners of combinations, built up by the operators.     *)
(* A combination passed by value to an operator is moved out of its owner. *)
(* reads[s][i] records the assignment the i-th term's variable reported    *)
(* when the term was created.  last describes the most recent operation:   *)
(* its name, the owner it acted on, that owner's combination before, the   *)
(* operand X, its canonical form `other`, and the scalar of a product.     *)
(* It is kept in the passes that observe single operations (Tracked).      *)

Slots == {"A", "B"}
Other(slot) == IF slot = "A" THEN "B" ELSE "A"

Moved == [V |-> "moved", terms |-> <<>>, precomputed |-> Unknown]
Live(lc) == lc.V \in Kinds
NoShape == [shape |-> "none"]
NoScalar == [kind |-> "none", n |-> 0]

Last(name, slot, self, X, other, scalar) ==
    [name |-> name, slot |-> slot, self |-> self, X |-> X, other |-> other,
     scalar |-> scalar]
Untracked == Last("untracked", "A", Moved, NoShape, Moved, NoScalar)
Tracked == last.name # "untracked"
Record(r) == last' = IF Tracked THEN r ELSE last

\* The operands an operator applied to `slot` can take.
Operands(slot) ==
    Shapes \cup (IF Live(lcs[Other(slot)]) THEN {LCShape(lcs[Other(slot)])} ELSE {})

\* The assignments read while canonicalizing X for a combination over V.
ReadsOf(slot, V, X) ==
    CASE X.shape = "LC" -> reads[Other(slot)]
      [] X.shape \in {"Scalar", "OpaqueScalar"} -> <<assignment(constant_one(V))>>
      [] OTHER -> <<assignment(X.v)>>

\* The owner `slot` receives `result`; a combination operand is moved.
Install(slot, X, result, rs) ==
    /\ Len(result.terms)
         + (IF X.shape = "LC" THEN 0 ELSE Len(lcs[Other(slot)].terms)) <= MaxTerms
    /\ lcs' = [s \in Slots |->
                 IF s = slot THEN result
                 ELSE IF X.shape = "LC" THEN Moved ELSE lcs[s]]
    /\ reads' = [s \in Slots |->
                 IF s = slot THEN rs
                 ELSE IF X.shape = "LC" THEN <<>> ELSE reads[s]]
    /\ UNCHANGED wires

TypeOK ==
    /\ \A s \in Slots : Live(lcs[s]) \/ lcs[s] = Moved
    /\ \A s \in Slots : Len(reads[s]) = Len(lcs[s].terms)
    /\ wires \in [1 .. NumWires -> WireAssignments]

\* A new combination is bound to an owner that holds none.
Default(slot, V) ==
    /\ ~Live(lcs[slot])
    /\ Install(slot, NoShape, default(V), <<>>)
    /\ Record(Last("default", slot, Moved, NoShape, Moved, NoScalar))

Canonicalize(slot, V, X) ==
    /\ ~Live(lcs[slot])
    /\ HasImpl(V, X)
    /\ Install(slot, X, into_lc(V, X), ReadsOf(slot, V, X))
    /\ Record(Last("into_lc", slot, Moved, X, into_lc(V, X), NoScalar))

Add(slot, X) ==
    /\ Live(lcs[slot])
    /\ HasImpl(lcs[slot].V, X)
    /\ Install(slot, X, add(lcs[slot], X), reads[slot] \o ReadsOf(slot, lcs[slot].V, X))
    /\ Record(Last("add", slot, lcs[slot], X, into_lc(lcs[slot].V, X), NoScalar))

Sub(slot, X) ==
    /\ Live(lcs[slot])
    /\ HasImpl(lcs[slot].V, X)
    /\ Install(slot, X, sub(lcs[slot], X), reads[slot] \o ReadsOf(slot, lcs[slot].V, X))
    /\ Record(Last("sub", slot, lcs[slot], X, into_lc(lcs[slot].V, X), NoScalar))

Mul(slot, scalar) ==
    /\ Live(lcs[slot])
    /\ scalar \in ScalarsOf(lcs[slot].V)
    /\ Install(slot, NoShape, mul(lcs[slot], scalar), reads[slot])
    /\ Record(Last("mul", slot, lcs[slot], NoShape, Moved, scalar))

IntoOpaque(slot) ==
    /\ Live(lcs[slot])
    /\ Install(slot, NoShape, into_opaque(lcs[slot]),
               [i \in 1 .. Len(reads[slot]) |-> AIntoOpaque(reads[slot][i])])
    /\ Record(Last("into_opaque", slot, lcs[slot], NoShape, Moved, NoScalar))

\* The owner goes out of scope and its combination is dropped.
Drop(slot) ==
    /\ Live(lcs[slot])
    /\ Install(slot, NoShape, Moved, <<>>)
    /\ Record(Last("drop", slot, lcs[slot], NoShape, Moved, NoScalar))

\* The surrounding constraint system changes a wire's assignment.
SetAssignment(i, a) ==
    /\ a # wires[i]
    /\ wires' = [wires EXCEPT ![i] = a]
    /\ UNCHANGED <<lcs, reads, last>>

\* Combinations built while the wires' assignments change under them.
Init ==
    /\ lcs = [s \in Slots |-> Moved]
    /\ reads = [s \in Slots |-> <<>>]
    /\ wires = [i \in 1 .. NumWires |-> Unknown]
    /\ last = Untracked

Next ==
    \/ \E slot \in Slots, V \in Kinds : Default(slot, V)
    \/ \E slot \in Slots, V \in Kinds : \E X \in Operands(slot) : Canonicalize(slot, V, X)
    \/ \E slot \in Slots : \E X \in Operands(slot) : Add(slot, X)
    \/ \E slot \in Slots : \E X \in Operands(slot) : Sub(slot, X)
    \/ \E slot \in Slots : \E scalar \in ScalarsOf(lcs[slot].V) : Mul(slot, scalar)
    \/ \E slot \in Slots : IntoOpaque(slot)
    \/ \E slot \in Slots : Drop(slot)
    \/ \E i \in 1 .. NumWires, a \in WireAssignments : SetAssignment(i, a)

Spec == Init /\ [][Next]_vars

\* One constraint-building pass: the assignments are fixed, each operation
\* is recorded in last.
InitPass ==
    /\ lcs = [s \in Slots |-> Moved]
    /\ reads = [s \in Slots |-> <<>>]
    /\ wires \in [1 .. NumWires -> WireAssignments]
    /\ last = Last("init", "A", Moved, NoShape, Moved, NoScalar)

NextPass ==
    \/ \E slot \in Slots, V \in Kinds : Default(slot, V)
    \/ \E slot \in Slots, V \in Kinds : \E X \in Operands(slot) : Canonicalize(slot, V, X)
    \/ \E slot \in Slots : \E X \in Operands(slot) : Add(slot, X)
    \/ \E slot \in Slots : \E X \in Operands(slot) : Sub(slot, X)
    \/ \E slot \in Slots : \E scalar \in ScalarsOf(lcs[slot].V) : Mul(slot, scalar)
    \/ \E slot \in Slots : IntoOpaque(slot)
    \/ \E slot \in Slots : Drop(slot)

SpecPass == InitPass /\ [][NextPass]_vars

-----------------------------------------------------------------------------
(* Linearity pass: (x + y) * s is built in lhs, x * s + y * s in xs.       *)

LinSlots == {"lhs", "xs", "ys"}
Lin(pc, V, x, y, s) == [name |-> "linearity", pc |-> pc, V |-> V, x |-> x, y |-> y, s |-> s]

InitLin ==
    /\ wires \in [1 .. NumWires -> WireAssignments]
    /\ lcs = [o \in LinSlots |-> Moved]
    /\ reads = [o \in LinSlots |-> <<>>]
    /\ \E V \in Kinds : \E x \in Shapes, y \in Shapes : \E s \in ScalarsOf(V) :
          /\ HasImpl(V, x)
          /\ HasImpl(V, y)
          /\ last = Lin("start", V, x, y, s)

LinStep(from, to, new) ==
    /\ last.pc = from
    /\ last' = [last EXCEPT !.pc = to]
    /\ lcs' = new
    /\ UNCHANGED <<reads, wires>>

LinBuild ==
    LinStep("start", "built",
            [lhs |-> into_lc(last.V, last.x), xs |-> into_lc(last.V, last.x),
             ys |-> into_lc(last.V, last.y)])
LinAddY == LinStep("built", "added", [lcs EXCEPT !.lhs = add(@, last.y)])
LinMulLhs == LinStep("added", "scaled", [lcs EXCEPT !.lhs = mul(@, last.s)])
LinMulX == LinStep("scaled", "xscaled", [lcs EXCEPT !.xs = mul(@, last.s)])
LinMulY == LinStep("xscaled", "yscaled", [lcs EXCEPT !.ys = mul(@, last.s)])
LinSum ==
    LinStep("yscaled", "done",
            [lcs EXCEPT !.xs = add(@, LCShape(lcs.ys)), !.ys = Moved])

NextLin == LinBuild \/ LinAddY \/ LinMulLhs \/ LinMulX \/ LinMulY \/ LinSum

SpecLinearity == InitLin /\ [][NextLin]_vars

-----------------------------------------------------------------------------
(* Properties                                                              *)

\* The tri-state sum of reads[i] * weight_i over the first n terms.
RECURSIVE TriSum(_, _, _, _)
TriSum(V, terms, rs, n) ==
    IF n = 0 THEN Value(zero(V))
    ELSE AAdd(TriSum(V, terms, rs, n - 1), AMul(rs[n], Value(terms[n][2])))

\* The same sum with every variable's assignment read now.
RECURSIVE LiveSum(_, _, _)
LiveSum(V, terms, n) ==
    IF n = 0 THEN Value(zero(V))
    ELSE AAdd(LiveSum(V, terms, n - 1), AMul(assignment(terms[n][1]), Value(terms[n][2])))

\* C1: eval() of every combination built by default, into_lc, +, -, * and
\* into_opaque is the tri-state sum over its terms of (the assignment its
\* variable reported when the term was added) * (the term's current weight);
\* the constant-one wire reads Known(one), the empty sum is Known(zero), and
\* later changes of the wires' assignments leave eval() as it was.
C1_EvalIsSnapshotSum ==
    \A o \in Slots :
        Live(lcs[o]) =>
            /\ eval(lcs[o]) = TriSum(lcs[o].V, lcs[o].terms, reads[o], Len(lcs[o].terms))
            /\ \A i \in 1 .. Len(lcs[o].terms) :
                  lcs[o].terms[i][1].index = 0 => reads[o][i] = Value(one(lcs[o].V))
            /\ lcs[o].terms = <<>> => eval(lcs[o]) = Value(zero(lcs[o].V))

\* A two-term combination holding a term whose wire changed after it was
\* added: eval() is known and is not the sum a fresh read would give.
C1_Witness ==
    \E o \in Slots :
        /\ Live(lcs[o])
        /\ Len(lcs[o].terms) = 2
        /\ \E i \in 1 .. 2 : /\ lcs[o].terms[i][1].index # 0
                             /\ reads[o][i] # assignment(lcs[o].terms[i][1])
                             /\ lcs[o].terms[i][2].n = 2
        /\ IsValue(eval(lcs[o]))
        /\ eval(lcs[o]) # LiveSum(lcs[o].V, lcs[o].terms, 2)

\* C2: a combination holding a term whose variable was Unknown when the term
\* was added evaluates to Unknown, whatever was done to it since (products
\* with zero and subtraction of its own terms included); Unknown never turns
\* into a Known value.
C2_UnknownAbsorbs ==
    \A o \in Slots :
        (Live(lcs[o]) /\ \E i \in 1 .. Len(reads[o]) : reads[o][i] = Unknown)
            => eval(lcs[o]) = Unknown

\* A term read as Unknown whose weight is now zero and whose wire is known
\* by now, next to a second term.
C2_Witness ==
    \E o \in Slots :
        /\ Live(lcs[o])
        /\ Len(lcs[o].terms) = 2
        /\ \E i \in 1 .. 2 : /\ reads[o][i] = Unknown
                             /\ lcs[o].terms[i][2].n = 0
                             /\ IsValue(assignment(lcs[o].terms[i][1]))
        /\ eval(lcs[o]) = Unknown

\* The combination the last operation produced.
Result == lcs[last.slot]

\* a * w computed on the residues, Unknown when a is.
Times(V, a, w) == IF IsValue(a) THEN Value(MkScalar(V, a.s.n * w.n)) ELSE Unknown

\* C3 as stated: a clear-kind constant or (variable, clear weight) pair is
\* never canonicalized, added or subtracted into an opaque-kind combination.
C3_ClearIntoOpaqueRejected ==
    ~ /\ last.name \in {"into_lc", "add", "sub"}
      /\ last.X.shape \in {"Scalar", "VScalar"}
      /\ Result.V = "opaque"

\* C3 (amended): only mixing towards the clear kind is rejected.  An opaque
\* constant, a (variable, opaque weight) pair, a variable or a combination of
\* another kind never enters a combination, so every variable and weight of a
\* combination has the combination's kind; a clear constant entering an
\* opaque-kind combination is accepted and widened on the way in, giving the
\* term (constant_one, s.into_opaque()) with eval Known(s.into_opaque()).
C3_OnlyNarrowingRejected ==
    last.name \in {"into_lc", "add", "sub"} =>
        /\ last.X.shape \in {"OpaqueScalar", "VOpaqueScalar"} => Result.V = "opaque"
        /\ last.X.shape \in {"V", "VScalar", "VOpaqueScalar"} => last.X.v.kind = Result.V
        /\ last.X.shape = "LC" => last.X.lc.V = Result.V
        /\ \A i \in 1 .. Len(Result.terms) :
              /\ Result.terms[i][1].kind = Result.V
              /\ Result.terms[i][2].kind = Result.V
        /\ (last.X.shape = "Scalar" /\ Result.V = "opaque") =>
              /\ last.other.terms = << <<Var("opaque", 0), OpaqueScalar(last.X.s.n)>> >>
              /\ eval(last.other) = Value(OpaqueScalar(last.X.s.n))

\* A clear constant has just been added to an opaque-kind combination.
C3_Witness ==
    /\ last.name = "add"
    /\ last.X.shape = "Scalar"
    /\ last.X.s.n = 2
    /\ Result.V = "opaque"
    /\ Len(Result.terms) = 2

\* C4: into_lc maps each shape to one combination: a combination to itself,
\* a constant s to the single term (constant_one, s) with eval Known(s), a
\* variable v to (v, one) with eval v.assignment(), a pair (v, w) to (v, w)
\* with eval v.assignment() * w, Unknown when v is Unknown.  A clear scalar
\* entering an opaque-kind combination is s.into_opaque().
C4_IntoLcShapes ==
    last.name = "into_lc" =>
        LET X == last.X
            V == Result.V
            InKind(s) == IF V = "clear" THEN s ELSE OpaqueScalar(s.n)
        IN  /\ Result = last.other
            /\ X.shape = "LC" => Result = X.lc
            /\ X.shape = "Scalar" =>
                  /\ Result.terms = << <<Var(V, 0), InKind(X.s)>> >>
                  /\ eval(Result) = Value(InKind(X.s))
            /\ X.shape = "OpaqueScalar" =>
                  /\ Result.terms = << <<Var(V, 0), X.s>> >>
                  /\ eval(Result) = Value(X.s)
            /\ X.shape = "V" =>
                  /\ Result.terms = << <<X.v, MkScalar(V, 1)>> >>
                  /\ eval(Result) = assignment(X.v)
            /\ X.shape = "VScalar" =>
                  /\ Result.terms = << <<X.v, InKind(X.w)>> >>
                  /\ eval(Result) = Times(V, assignment(X.v), X.w)
            /\ X.shape = "VOpaqueScalar" =>
                  /\ Result.terms = << <<X.v, X.w>> >>
                  /\ eval(Result) = Times(V, assignment(X.v), X.w)

\* A pair whose wire is Unknown has just been canonicalized.
C4_Witness ==
    /\ last.name = "into_lc"
    /\ last.X.shape = "VScalar"
    /\ last.X.v.index # 0
    /\ last.X.w.n = 2
    /\ eval(Result) = Unknown

\* C5: A + X has A's terms followed by the terms of B = into_lc(X), in
\* order, none merged or dropped even when a variable occurs in both, so
\* len(A) + len(B) terms, and eval A.eval() + B.eval().
C5_AddAppends ==
    last.name = "add" =>
        LET A == last.self
            B == last.other
        IN  /\ B = into_lc(A.V, last.X)
            /\ Len(Result.terms) = Len(A.terms) + Len(B.terms)
            /\ \A i \in 1 .. Len(A.terms) : Result.terms[i] = A.terms[i]
            /\ \A j \in 1 .. Len(B.terms) : Result.terms[Len(A.terms) + j] = B.terms[j]
            /\ eval(Result) = AAdd(eval(A), eval(B))

\* The sum of two combinations that hold the same wire.
C5_Witness ==
    /\ last.name = "add"
    /\ Len(last.self.terms) = 1
    /\ Len(last.other.terms) = 1
    /\ last.self.terms[1][1] = last.other.terms[1][1]
    /\ last.self.terms[1][1].index # 0
    /\ Len(Result.terms) = 2

\* C6: A - X has A's terms unchanged followed by the terms of B = into_lc(X)
\* in order, each weight negated and each variable unchanged, and eval
\* A.eval() - B.eval(); A - A keeps 2 * len(A) terms and is Known(zero) only
\* when A.eval() is Known.
C6_SubAppendsNegated ==
    last.name = "sub" =>
        LET A == last.self
            B == last.other
        IN  /\ B = into_lc(A.V, last.X)
            /\ Len(Result.terms) = Len(A.terms) + Len(B.terms)
            /\ \A i \in 1 .. Len(A.terms) : Result.terms[i] = A.terms[i]
            /\ \A j \in 1 .. Len(B.terms) :
                  /\ Result.terms[Len(A.terms) + j][1] = B.terms[j][1]
                  /\ Result.terms[Len(A.terms) + j][2].kind = B.terms[j][2].kind
                  /\ (Result.terms[Len(A.terms) + j][2].n + B.terms[j][2].n) % Modulus = 0
            /\ eval(Result) = ASub(eval(A), eval(B))
            /\ B = A =>
                  /\ Len(Result.terms) = 2 * Len(A.terms)
                  /\ IsValue(eval(A)) => eval(Result) = Value(MkScalar(A.V, 0))
                  /\ ~IsValue(eval(A)) => eval(Result) = Unknown

\* A combination with an Unknown term subtracted from its twin.
C6_Witness ==
    /\ last.name = "sub"
    /\ last.X.shape = "LC"
    /\ last.other = last.self
    /\ Len(last.self.terms) = 1
    /\ last.self.terms[1][2].n = 1
    /\ eval(last.self) = Unknown
    /\ eval(Result) = Unknown

\* C7: A * s has A's variables in A's order, as many terms, each stored
\* weight the old weight times s, and eval A.eval() * Known(s).
C7_MulScalesWeights ==
    last.name = "mul" =>
        LET A == last.self
            s == last.scalar
        IN  /\ Len(Result.terms) = Len(A.terms)
            /\ \A i \in 1 .. Len(A.terms) :
                  /\ Result.terms[i][1] = A.terms[i][1]
                  /\ Result.terms[i][2] = MkScalar(A.V, A.terms[i][2].n * s.n)
            /\ eval(Result) = Times(A.V, eval(A), s)

\* A two-term combination with a known value has been doubled.
C7_Witness ==
    /\ last.name = "mul"
    /\ last.scalar.n = 2
    /\ Len(last.self.terms) = 2
    /\ \A i \in 1 .. 2 : last.self.terms[i][2].n # 0
    /\ IsValue(eval(last.self))
    /\ eval(last.self).s.n # 0

\* C8: A.into_opaque() never fails, has A's terms in A's order with the i-th
\* being (v_i.into_opaque(), w_i.into_opaque()), and its eval() is the
\* opaque lift of A.eval().
C8_IntoOpaquePreserves ==
    /\ \A o \in Slots : Live(lcs[o]) => ENABLED IntoOpaque(o)
    /\ last.name = "into_opaque" =>
          LET A == last.self
          IN  /\ Result.V = "opaque"
              /\ Len(Result.terms) = Len(A.terms)
              /\ \A i \in 1 .. Len(A.terms) :
                    /\ Result.terms[i][1] = Var("opaque", A.terms[i][1].index)
                    /\ Result.terms[i][2] = OpaqueScalar(A.terms[i][2].n)
              /\ IsValue(eval(A)) => eval(Result) = Value(OpaqueScalar(eval(A).s.n))
              /\ ~IsValue(eval(A)) => eval(Result) = Unknown

\* A clear two-term combination with a known value has been widened.
C8_Witness ==
    /\ last.name = "into_opaque"
    /\ last.self.V = "clear"
    /\ Len(last.self.terms) = 2
    /\ IsValue(eval(last.self))
    /\ eval(last.self).s.n = 2

\* C9: eval((x + y) * s) = eval(x * s) + eval(y * s) for all operands x, y
\* and every weight s; Unknown on one side is Unknown on both.
C9_Linearity ==
    last.pc = "done" =>
        /\ eval(lcs.lhs) = eval(lcs.xs)
        /\ (\E X \in {last.x, last.y} :
               X.shape \in {"V", "VScalar", "VOpaqueScalar"} /\ ~IsValue(assignment(X.v)))
              <=> eval(lcs.lhs) = Unknown

\* Two different operands and a weight other than zero and one, all known.
C9_Witness ==
    /\ last.pc = "done"
    /\ last.x.shape = "VScalar"
    /\ last.x.v.index # 0
    /\ last.y.shape = "Scalar"
    /\ last.s.n = 2
    /\ IsValue(eval(lcs.lhs))
    /\ eval(lcs.lhs).s.n # 0

\* C10: default() has no terms and evaluates to Known(zero), and A + default()
\* has exactly A's terms and A's eval(), also when that is Unknown.
C10_EmptyIsIdentity ==
    /\ last.name = "default" =>
          /\ Result.terms = <<>>
          /\ eval(Result) = Value(MkScalar(Result.V, 0))
    /\ (last.name = "add" /\ last.other = default(last.self.V)) =>
          /\ Result.terms = last.self.terms
          /\ eval(Result) = eval(last.self)

\* default() has just been added to a combination whose value is Unknown.
C10_Witness ==
    /\ last.name = "add"
    /\ last.X.shape = "LC"
    /\ last.other = default(last.self.V)
    /\ Len(last.self.terms) = 1
    /\ eval(last.self) = Unknown
    /\ eval(Result) = Unknown

====
